---------------------------- MODULE Spec2Model ----------------------------
(***************************************************************************)
(* State-machine model of the storefront widgets of voxire/BOO-shopify:    *)
(*   - the GIF media carousel in its three versions                        *)
(*       "v3transform"  assets/gif-media-carousel.js                       *)
(*       "v2scroll"     assets/hers-header.js, lines 53-613                *)
(*       "v1scroll"     assets/hers-header.js, lines 621-911               *)
(*   - quick add to cart (handleQuickAdd)                                  *)
(*   - the labs-hero marquee (assets/hers-labs-hero.js)                    *)
(*   - the hero headline rotation (assets/hers-hero.js)                    *)
(*   - the sticky header (assets/hers-header.js, lines 6-43)               *)
(*                                                                         *)
(* Every event handler is one atomic action (JavaScript runs a handler to  *)
(* completion).  A carousel instance is the record car; its handlers are   *)
(* operators from records to records, composed as the code calls them.     *)
(* Lengths are CSS pixels.                                                 *)
(*                                                                         *)
(* Specifications, one widget each (the others are idle):                  *)
(*   SpecCar            a carousel of one of the three versions            *)
(*   FairSpecTransform  the transform-based carousel with fair timers      *)
(*   SpecQuickAdd       one quick add button                               *)
(*   FairSpecQuickAdd   the same, with requests that settle                *)
(*   SpecHero           the headline rotation                              *)
(*   SpecHeader         the sticky header                                  *)
(*   SpecMarquee        the labs-hero marquee                              *)
(*   FairSpecMarquee    the same, with promises, timeouts and frames that  *)
(*                      run                                                *)
(***************************************************************************)
EXTENDS Integers, FiniteSets, Sequences, TLC

VARIABLES
    car,          \* the carousel instance: its fields, its closure variables, the DOM it owns
    pointerOver,  \* environment: where the pointer is with respect to the carousel section
    focusInside,  \* environment: where keyboard focus is with respect to the carousel section
    qa,           \* quick add: the buttons, the running handleQuickAdd calls, the requests made
    hero,         \* the hers-hero element: headline rotation
    mq,           \* the hers-labs-hero element: marquee
    hdr           \* the hers-header-wrapper element

\* pointerOver and focusInside are "outside", "inside" (the section's listeners
\* saw the mouseenter / focusin) or "insideAtInit" (the pointer / focus was
\* already inside when init() attached the listeners)
Places == {"outside", "inside", "insideAtInit"}

vars == <<car, pointerOver, focusInside, qa, hero, mq, hdr>>

---------------------------------------------------------------------------
(* Bounds of the model *)

\* Largest number of real slides of a transform-based carousel
MaxSlides == 3
\* Largest number of slides of a scroll-based carousel
MaxScrollSlides == 2
\* Largest number of interval timers that are alive but no longer referenced
MaxLeaked == 1

\* Program constants
SWIPE_THRESHOLD == 50
MAX_VERTICAL_SWIPE == 30
DefaultGap == 18
DefaultGapV1 == 20

\* Input sets (pixels, milliseconds)
SlideOffsetWidths == {82}
TrackGaps == {0, 18}          \* parseInt(gap) of the track; 0 stands for "normal"/NaN too
TrackOffsetWidths == {0, 100}
DragDeltas == {-60, -20, 0, 20, 60}    \* pageX - startX of a touch/mouse sample
VerticalDeltas == {0, 40}     \* |endY - startY|
DeltaTimes == {10, 1000}      \* endTime - startTime
TrackClientWidths == {100, 182}
ScrollDragDeltas == {-125, 125}

Max(a, b) == IF a >= b THEN a ELSE b
Min(a, b) == IF a <= b THEN a ELSE b
Abs(a) == IF a < 0 THEN -a ELSE a
\* Math.ceil(a / b) for a >= 0, b > 0
CeilDiv(a, b) == (a + b - 1) \div b

---------------------------------------------------------------------------
(* Version "v3transform": assets/gif-media-carousel.js *)

\* Variant of T_updateActiveState that disables the arrows at the ends with
\* loop on as well
T_updateActiveState_EndsDisabled(c) ==
    [c EXCEPT
        !.dotsActive   = (@ \ {i \in 0..(c.numDots - 1) : i < c.realSlideCount})
                            \cup {i \in 0..(c.numDots - 1) :
                                     i < c.realSlideCount /\ i = c.currentIndex},
        !.prevDisabled = c.currentIndex = 0,
        !.nextDisabled = c.currentIndex >= c.realSlideCount - 1,
        !.slidesActive = {i \in 0..(c.realSlideCount - 1) : i = c.currentIndex}]

\* updateActiveState(): dots, arrows, is-active of the real slides
T_updateActiveState(c) ==
    [c EXCEPT
        !.dotsActive   = (@ \ {i \in 0..(c.numDots - 1) : i < c.realSlideCount})
                            \cup {i \in 0..(c.numDots - 1) :
                                     i < c.realSlideCount /\ i = c.currentIndex},
        !.prevDisabled = IF c.loopEnabled THEN FALSE ELSE c.currentIndex = 0,
        !.nextDisabled = IF c.loopEnabled THEN FALSE
                         ELSE c.currentIndex >= c.realSlideCount - 1,
        !.slidesActive = {i \in 0..(c.realSlideCount - 1) : i = c.currentIndex}]

\* Variant of T_targetIndex that clamps without loop and does not wrap with loop
T_targetIndex_NoWrap(c, index) ==
    IF ~c.loopEnabled
    THEN Max(0, Min(index, c.realSlideCount - 1))
    ELSE index

\* The index updateTransform moves to: clamped without loop, wrapped with loop
T_targetIndex(c, index) ==
    IF ~c.loopEnabled
    THEN Max(0, Min(index, c.realSlideCount - 1))
    ELSE IF index < 0 THEN c.realSlideCount - 1
         ELSE IF index >= c.realSlideCount THEN 0
         ELSE index

\* The offset updateTransform moves the track to
T_translateX(c, targetIndex) ==
    LET startOffset == c.cloneCount * c.slideWidth
    IN IF c.loopEnabled
       THEN IF c.currentIndex = c.realSlideCount - 1 /\ targetIndex = 0
            THEN startOffset + (c.realSlideCount * c.slideWidth)
            ELSE IF c.currentIndex = 0 /\ targetIndex = c.realSlideCount - 1
                 THEN 0
                 ELSE startOffset + (targetIndex * c.slideWidth)
       ELSE targetIndex * c.slideWidth

\* updateTransform(index, animate).  The browser runs a transition (and later
\* fires transitionend) only when the animated transform differs from the one
\* the track has; transition = 'none' cancels a running one.
T_updateTransform(c, index, animate) ==
    LET targetIndex == T_targetIndex(c, index)
        translateX  == T_translateX(c, targetIndex)
    IN T_updateActiveState(
         [c EXCEPT
            !.isTransitioning   = animate,
            !.trackTransform    = translateX,
            !.transitionRunning = IF animate
                                  THEN (@ \/ translateX # c.trackTransform)
                                  ELSE FALSE,
            !.currentTranslateX = translateX,
            !.currentIndex      = targetIndex,
            !.teListener        = @ \/ (animate /\ c.loopEnabled)])

\* handleTransitionEnd(): the jump from a clone to the real slide
T_handleTransitionEnd(c) ==
    LET c1          == [c EXCEPT !.isTransitioning = FALSE]
        startOffset == c.cloneCount * c.slideWidth
        endOffset   == startOffset + (c.realSlideCount * c.slideWidth)
    IN IF ~c.loopEnabled THEN c1
       ELSE IF c.currentTranslateX >= endOffset
            THEN T_updateActiveState(
                   [c1 EXCEPT !.currentTranslateX = startOffset,
                              !.trackTransform    = startOffset,
                              !.currentIndex      = 0])
            ELSE IF c.currentTranslateX < startOffset
                 THEN LET x == startOffset + ((c.realSlideCount - 1) * c.slideWidth)
                      IN T_updateActiveState(
                           [c1 EXCEPT !.currentTranslateX = x,
                                      !.trackTransform    = x,
                                      !.currentIndex      = c.realSlideCount - 1])
                 ELSE c1

\* startAutoplay(): setInterval; a timer already referenced by autoplayTimer
\* stays alive and is no longer referenced (leaked)
startAutoplay(c) ==
    IF c.isPaused THEN c
    ELSE [c EXCEPT !.leaked        = IF c.autoplayTimer THEN @ + 1 ELSE @,
                   !.autoplayTimer = TRUE]

\* pauseAutoplay(): clearInterval of the referenced timer only
pauseAutoplay(c) ==
    [c EXCEPT !.isPaused = TRUE, !.autoplayTimer = FALSE]

resumeAutoplay(c) == startAutoplay([c EXCEPT !.isPaused = FALSE])

resetAutoplay(c) == resumeAutoplay(pauseAutoplay(c))

T_goToSlide(c, index) ==
    IF c.isTransitioning THEN c
    ELSE LET c1 == T_updateTransform(c, index, TRUE)
         IN IF c1.autoplayEnabled /\ ~c1.isPaused THEN resetAutoplay(c1) ELSE c1

T_goToPrev(c) ==
    IF c.isTransitioning THEN c ELSE T_goToSlide(c, c.currentIndex - 1)

T_goToNext(c) ==
    IF c.isTransitioning THEN c ELSE T_goToSlide(c, c.currentIndex + 1)

\* cloneSlides(): the number of clones at each end
T_cloneCount(trackOffsetWidth, slideWidth, realSlideCount) ==
    Min(CeilDiv(trackOffsetWidth, slideWidth) + 2, realSlideCount)

\* The .gmc-slide children of the track: real slide i, a clone of real slide i
RealSlide(i) == [clone |-> FALSE, of |-> i]
CloneOf(i) == [clone |-> TRUE, of |-> i]

\* cloneSlides(), first loop: for i from realSlideCount - cloneCount up, a clone
\* of realSlides[i] is inserted before the track's first child
RECURSIVE T_prependClones(_, _, _)
T_prependClones(track, i, realSlideCount) ==
    IF i >= realSlideCount THEN track
    ELSE T_prependClones(<<CloneOf(i)>> \o track, i + 1, realSlideCount)

\* cloneSlides(), second loop: for i from 0 up, a clone of realSlides[i] is appended
RECURSIVE T_appendClones(_, _, _)
T_appendClones(track, i, cloneCount) ==
    IF i >= cloneCount THEN track
    ELSE T_appendClones(Append(track, CloneOf(i)), i + 1, cloneCount)

\* cloneSlides(): the track's slides afterwards
T_cloneSlides(realSlideCount, cloneCount) ==
    T_appendClones(
        T_prependClones([i \in 1..realSlideCount |-> RealSlide(i - 1)],
                        realSlideCount - cloneCount, realSlideCount),
        0, cloneCount)

\* The fields the constructor sets before init()
T_constructor(loop, autoplay, n) ==
    [version |-> "v3transform", inited |-> FALSE,
     loopEnabled |-> loop, autoplayEnabled |-> autoplay,
     autoplayTimer |-> FALSE, leaked |-> 0, isPaused |-> FALSE,
     isDragging |-> FALSE, isTransitioning |-> FALSE,
     currentTranslateX |-> 0, slideWidth |-> 0, gap |-> 0,
     realSlideCount |-> 0, cloneCount |-> 0, currentIndex |-> 0,
     \* the DOM of the section, as the theme renders it: one dot per slide
     numSlides |-> n, numDots |-> n,
     allSlides |-> <<>>,
     dotsActive |-> {}, slidesActive |-> {},
     prevDisabled |-> FALSE, nextDisabled |-> FALSE,
     trackTransform |-> 0, transitionRunning |-> FALSE, teListener |-> FALSE,
     \* closure variables of setupTouchSupport
     touchDragging |-> FALSE, touchStartTranslateX |-> 0,
     mouseDown |-> FALSE, mouseStartTranslateX |-> 0]

\* init(): dimensions, clones, first position, autoplay, first active state
T_init(c, slideOffsetWidth, trackGap, trackOffsetWidth) ==
    IF c.numSlides = 0 THEN c
    ELSE LET gap == IF trackGap = 0 THEN DefaultGap ELSE trackGap
             sw  == slideOffsetWidth + gap
             cc  == IF c.loopEnabled
                    THEN T_cloneCount(trackOffsetWidth, sw, c.numSlides)
                    ELSE 0
             c1  == [c EXCEPT !.realSlideCount = c.numSlides,
                              !.gap = gap, !.slideWidth = sw,
                              !.cloneCount = cc,
                              !.allSlides = T_cloneSlides(c.numSlides, cc)]
             c2  == T_updateTransform([c1 EXCEPT !.currentIndex = 0], 0, FALSE)
             c3  == IF c2.autoplayEnabled THEN startAutoplay(c2) ELSE c2
         IN T_updateActiveState([c3 EXCEPT !.inited = TRUE])

\* A swipe is fast when distance / max(deltaTime, 1) > 0.3
FasterThanVelocityThreshold(distance, deltaTime) ==
    distance * 10 > 3 * Max(deltaTime, 1)

IsT == car.version = "v3transform" /\ car.inited

\* A mouse event on the track: the pointer is over the section.  The section
\* follows the pointer only with autoplay enabled (init attaches mouseenter and
\* mouseleave only then)
PointerOnTrack == car.autoplayEnabled => pointerOver # "outside"

\* click on .gmc-arrow--prev (a disabled button gets no click)
T_ClickPrev ==
    /\ IsT /\ ~car.prevDisabled
    /\ car' = T_goToPrev(car)
    /\ UNCHANGED <<pointerOver, focusInside, qa, hero, mq, hdr>>

\* click on .gmc-arrow--next
T_ClickNext ==
    /\ IsT /\ ~car.nextDisabled
    /\ car' = T_goToNext(car)
    /\ UNCHANGED <<pointerOver, focusInside, qa, hero, mq, hdr>>

\* click on a .gmc-overlay-button--next
T_ClickOverlayNext ==
    /\ IsT
    /\ car' = T_goToNext(car)
    /\ UNCHANGED <<pointerOver, focusInside, qa, hero, mq, hdr>>

\* click on a dot
T_ClickDot ==
    /\ IsT
    /\ \E index \in 0..(car.numDots - 1) :
          /\ index < car.realSlideCount
          /\ car' = T_goToSlide(car, index)
    /\ UNCHANGED <<pointerOver, focusInside, qa, hero, mq, hdr>>

\* The transform a drag sample writes: translateX(-${x}px) is not valid CSS for
\* x < 0 ("--"), and the browser then keeps the style it had
T_dragTransform(c, newTranslateX) ==
    [c EXCEPT !.currentTranslateX = newTranslateX,
              !.trackTransform    = IF newTranslateX >= 0 THEN newTranslateX ELSE @]

\* One pointer at a time: a touch drag and a mouse drag do not overlap
T_TouchStart ==
    /\ IsT /\ ~car.touchDragging /\ ~car.mouseDown
    /\ car' = IF car.isTransitioning THEN car
              ELSE [car EXCEPT !.touchStartTranslateX = car.currentTranslateX,
                               !.touchDragging = TRUE, !.isDragging = TRUE]
    /\ UNCHANGED <<pointerOver, focusInside, qa, hero, mq, hdr>>

T_TouchMove ==
    /\ IsT /\ car.touchDragging
    /\ \E deltaX \in DragDeltas :
          /\ car' = IF car.isTransitioning THEN car
                    ELSE T_dragTransform(car, car.touchStartTranslateX - deltaX)
    /\ UNCHANGED <<pointerOver, focusInside, qa, hero, mq, hdr>>

\* The end of a drag.  touchStartTranslateX and mouseStartTranslateX keep their
\* value in the code; the next touchstart/mousedown overwrites it before any
\* read, so the model clears the dead value
T_endTouch(c) ==
    [c EXCEPT !.touchDragging = FALSE, !.isDragging = FALSE,
              !.touchStartTranslateX = 0]

T_endMouse(c) ==
    [c EXCEPT !.mouseDown = FALSE, !.isDragging = FALSE,
              !.mouseStartTranslateX = 0]

T_touchend(c, deltaX, deltaY, deltaTime) ==
    LET c1       == T_endTouch(c)
        distance == Abs(deltaX)
    IN IF deltaY < MAX_VERTICAL_SWIPE
          /\ (distance > SWIPE_THRESHOLD \/ FasterThanVelocityThreshold(distance, deltaTime))
       THEN IF deltaX > 0 THEN T_goToPrev(c1) ELSE T_goToNext(c1)
       ELSE T_updateTransform(c1, c1.currentIndex, TRUE)

T_TouchEnd ==
    /\ IsT /\ car.touchDragging
    /\ \E deltaX \in DragDeltas, deltaY \in VerticalDeltas, deltaTime \in DeltaTimes :
          car' = T_touchend(car, deltaX, deltaY, deltaTime)
    /\ UNCHANGED <<pointerOver, focusInside, qa, hero, mq, hdr>>

T_MouseDown ==
    /\ IsT /\ PointerOnTrack /\ ~car.mouseDown /\ ~car.touchDragging
    /\ car' = IF car.isTransitioning THEN car
              ELSE [car EXCEPT !.mouseStartTranslateX = car.currentTranslateX,
                               !.mouseDown = TRUE, !.isDragging = TRUE]
    /\ UNCHANGED <<pointerOver, focusInside, qa, hero, mq, hdr>>

T_MouseMove ==
    /\ IsT /\ PointerOnTrack /\ car.mouseDown
    /\ \E deltaX \in DragDeltas :
          /\ car' = IF car.isTransitioning THEN car
                    ELSE T_dragTransform(car, car.mouseStartTranslateX - deltaX)
    /\ UNCHANGED <<pointerOver, focusInside, qa, hero, mq, hdr>>

T_mouseup(c, deltaX, deltaTime) ==
    LET c1       == T_endMouse(c)
        distance == Abs(deltaX)
    IN IF distance > SWIPE_THRESHOLD /\ FasterThanVelocityThreshold(distance, deltaTime)
       THEN IF deltaX > 0 THEN T_goToPrev(c1) ELSE T_goToNext(c1)
       ELSE T_updateTransform(c1, c1.currentIndex, TRUE)

T_MouseUp ==
    /\ IsT /\ PointerOnTrack /\ car.mouseDown
    /\ \E deltaX \in DragDeltas, deltaTime \in DeltaTimes :
          car' = T_mouseup(car, deltaX, deltaTime)
    /\ UNCHANGED <<pointerOver, focusInside, qa, hero, mq, hdr>>

\* mouseleave of the track while the button is down
T_TrackMouseLeave ==
    /\ IsT /\ PointerOnTrack /\ car.mouseDown
    /\ car' = T_updateTransform(T_endMouse(car), car.currentIndex, TRUE)
    /\ UNCHANGED <<pointerOver, focusInside, qa, hero, mq, hdr>>

\* The track's transform transition ends: the browser fires transitionend, which
\* runs the { once: true } listeners (handleTransitionEnd is idempotent, so any
\* number of them acts as one)
T_TransitionEnd ==
    /\ IsT /\ car.transitionRunning
    /\ car' = [(IF car.teListener THEN T_handleTransitionEnd(car) ELSE car)
                 EXCEPT !.transitionRunning = FALSE, !.teListener = FALSE]
    /\ UNCHANGED <<pointerOver, focusInside, qa, hero, mq, hdr>>

\* An interval timer of startAutoplay fires (the referenced one or a leaked one)
T_AutoplayTick ==
    /\ IsT /\ (car.autoplayTimer \/ car.leaked > 0)
    /\ car' = IF ~car.isTransitioning THEN T_goToNext(car) ELSE car
    /\ car'.leaked <= MaxLeaked
    /\ UNCHANGED <<pointerOver, focusInside, qa, hero, mq, hdr>>

---------------------------------------------------------------------------
(* Geometry and browser scrolling of the scroll-based versions.  scrollLeft  *)
(* is the track's scroll offset; scrollTo({behavior: 'smooth'}) sets a       *)
(* target the browser then approaches in steps; every change of scrollLeft   *)
(* is followed by a scroll event.                                            *)

\* scrollTarget is the set of targets of the running smooth scroll: none or one
NoTarget == {}

\* Math.round(a / b) for a >= 0, b > 0 (halves round up)
RoundDiv(a, b) == ((2 * a) + b) \div (2 * b)

\* The largest scroll offset: content width minus the track's width
MaxScrollLeft(c, slideWidth) ==
    Max(0, ((c.numSlides * slideWidth) - (slideWidth - c.slideOffsetWidth)) - c.trackClientWidth)

ClampScroll(c, slideWidth, x) == Max(0, Min(x, MaxScrollLeft(c, slideWidth)))

\* Scroll offsets the model visits: every slide width, and the two ends
ScrollStops(c, slideWidth) ==
    {x \in 0..MaxScrollLeft(c, slideWidth) :
        x % slideWidth = 0 \/ x = MaxScrollLeft(c, slideWidth)}

\* track.scrollTo({left, behavior: 'smooth'})
SmoothScrollTo(c, slideWidth, left) ==
    LET target == ClampScroll(c, slideWidth, left)
    IN [c EXCEPT !.scrollTarget = IF target = c.scrollLeft THEN NoTarget ELSE {target}]

\* track.scrollLeft = x: immediate, ends a smooth scroll, fires a scroll event
SetScrollLeft(c, slideWidth, x) ==
    LET y == ClampScroll(c, slideWidth, x)
    IN [c EXCEPT !.scrollLeft = y, !.scrollTarget = NoTarget,
                 !.scrollEvtPending = @ \/ y # c.scrollLeft]

---------------------------------------------------------------------------
(* Version "v2scroll": assets/hers-header.js, lines 53-613 *)

\* parseInt(getComputedStyle(track).gap) || 18.  getSlideWidth reads it on every
\* call; the style of the track does not change, so the record keeps the result
S_gap(trackGap) == IF trackGap = 0 THEN DefaultGap ELSE trackGap

S_getSlideWidth(c) == c.slideOffsetWidth + c.gap

\* Twice the distance between the track's centre and the centre of slide i
\* (getBoundingClientRect of the track and of the slide)
S_distance2(c, i) ==
    Abs(c.trackClientWidth
          - ((2 * ((i * S_getSlideWidth(c)) - c.scrollLeft)) + c.slideOffsetWidth))

RECURSIVE S_closest(_, _)

\* Variant of S_closest that replaces the closest slide at equal distance too
S_closest_LastOnTie(c, k) ==
    IF k = 0 THEN <<0, -1>>
    ELSE LET prev == S_closest(c, k - 1)
             d    == S_distance2(c, k - 1)
         IN IF prev[2] = -1 \/ d <= prev[2] THEN <<k - 1, d>> ELSE prev

\* The forEach of findActiveSlideIndex over slides 0..k-1: <<closestIndex, closestDistance>>,
\* closestDistance = -1 standing for Infinity
S_closest(c, k) ==
    IF k = 0 THEN <<0, -1>>
    ELSE LET prev == S_closest(c, k - 1)
             d    == S_distance2(c, k - 1)
         IN IF prev[2] = -1 \/ d < prev[2] THEN <<k - 1, d>> ELSE prev

S_findActiveSlideIndex(c) ==
    IF c.numSlides = 0 THEN 0 ELSE S_closest(c, c.numSlides)[1]

S_updateActiveSlide(c) ==
    LET activeIndex == S_findActiveSlideIndex(c)
    IN [c EXCEPT !.slidesActive = {i \in 0..(c.numSlides - 1) : i = activeIndex},
                 !.currentIndex = activeIndex]

S_updateActiveState(c) ==
    [c EXCEPT
        !.dotsActive   = {i \in 0..(c.numDots - 1) : i = c.currentIndex},
        !.prevDisabled = IF c.loopEnabled THEN FALSE ELSE c.currentIndex = 0,
        !.nextDisabled = IF c.loopEnabled THEN FALSE
                         ELSE c.currentIndex >= c.numSlides - 1]

\* handleScroll(): cancelAnimationFrame + requestAnimationFrame
S_handleScroll(c) ==
    IF c.isDragging THEN c ELSE [c EXCEPT !.scrollRafPending = TRUE]

S_scrollToIndex(c, index0) ==
    IF c.numSlides = 0 THEN c
    ELSE LET index == IF c.loopEnabled
                      THEN IF index0 < 0 THEN c.numSlides - 1
                           ELSE IF index0 >= c.numSlides THEN 0 ELSE index0
                      ELSE index0
         IN IF ~c.loopEnabled /\ (index < 0 \/ index >= c.numSlides) THEN c
            ELSE LET c1 == SmoothScrollTo(c, S_getSlideWidth(c), S_getSlideWidth(c) * index)
                     c2 == S_updateActiveState(
                              S_updateActiveSlide([c1 EXCEPT !.currentIndex = index]))
                 IN IF c2.autoplayEnabled /\ ~c2.isPaused THEN resetAutoplay(c2) ELSE c2

S_scrollToPrev(c) ==
    IF c.loopEnabled
    THEN S_scrollToIndex(c, IF c.currentIndex - 1 < 0 THEN c.numSlides - 1
                            ELSE c.currentIndex - 1)
    ELSE S_scrollToIndex(c, Max(0, c.currentIndex - 1))

S_scrollToNext(c) ==
    IF c.loopEnabled
    THEN S_scrollToIndex(c, (c.currentIndex + 1) % c.numSlides)
    ELSE S_scrollToIndex(c, Min(c.numSlides - 1, c.currentIndex + 1))

\* snapToNearestSlide(): smooth scroll to the nearest slide, update 100 ms later
S_snapToNearestSlide(c) ==
    LET slideWidth   == S_getSlideWidth(c)
        nearestIndex == RoundDiv(c.scrollLeft, slideWidth)
        targetIndex  == Max(0, Min(nearestIndex, c.numSlides - 1))
    IN [SmoothScrollTo(c, slideWidth, targetIndex * slideWidth)
          EXCEPT !.snapTimerPending = TRUE]

S_constructor(loop, autoplay, n, slideOffsetWidth, trackGap, trackClientWidth) ==
    [version |-> "v2scroll", inited |-> FALSE,
     loopEnabled |-> loop, autoplayEnabled |-> autoplay,
     autoplayTimer |-> FALSE, leaked |-> 0, isPaused |-> FALSE,
     currentIndex |-> 0, scrollRafPending |-> FALSE, isDragging |-> FALSE,
     \* the DOM of the section, as the theme renders it: one dot per slide
     numSlides |-> n, numDots |-> n,
     dotsActive |-> {}, slidesActive |-> {},
     prevDisabled |-> FALSE, nextDisabled |-> FALSE,
     slideOffsetWidth |-> slideOffsetWidth, gap |-> S_gap(trackGap),
     trackClientWidth |-> trackClientWidth,
     scrollLeft |-> 0, scrollTarget |-> NoTarget, scrollEvtPending |-> FALSE,
     snapTimerPending |-> FALSE,
     \* closure variables of setupTouchSupport (isDragging, scrollLeft)
     dragging |-> FALSE, dragStartScrollLeft |-> 0,
     \* environment: the mouse button is held since a mousedown on the track
     mouseDown |-> FALSE]

S_init(c) ==
    IF c.numSlides = 0 THEN c
    ELSE LET c1 == IF c.autoplayEnabled THEN startAutoplay(c) ELSE c
         IN S_updateActiveState(S_updateActiveSlide([c1 EXCEPT !.inited = TRUE]))

IsS == car.version = "v2scroll" /\ car.inited

S_ClickPrev ==
    /\ IsS /\ ~car.prevDisabled
    /\ car' = S_scrollToPrev(car)
    /\ UNCHANGED <<pointerOver, focusInside, qa, hero, mq, hdr>>

S_ClickNext ==
    /\ IsS /\ ~car.nextDisabled
    /\ car' = S_scrollToNext(car)
    /\ UNCHANGED <<pointerOver, focusInside, qa, hero, mq, hdr>>

S_ClickOverlayNext ==
    /\ IsS
    /\ car' = S_scrollToNext(car)
    /\ UNCHANGED <<pointerOver, focusInside, qa, hero, mq, hdr>>

S_ClickDot ==
    /\ IsS
    /\ \E index \in 0..(car.numDots - 1) : car' = S_scrollToIndex(car, index)
    /\ UNCHANGED <<pointerOver, focusInside, qa, hero, mq, hdr>>

\* touchstart and mousedown: the same closure variables
S_dragStart(c) ==
    [c EXCEPT !.dragging = TRUE, !.isDragging = TRUE,
              !.dragStartScrollLeft = c.scrollLeft]

\* touchmove and mousemove: walk = (x - startX) * 1.2
S_dragMove(c, deltaX) ==
    IF ~c.dragging THEN c
    ELSE SetScrollLeft(c, S_getSlideWidth(c),
                       c.dragStartScrollLeft - ((deltaX * 12) \div 10))

\* touchend, mouseup and the track's mouseleave; the start offset is dead after
\* the drag and the model clears it
S_dragEnd(c) ==
    IF ~c.dragging THEN c
    ELSE S_snapToNearestSlide(
            [c EXCEPT !.dragging = FALSE, !.isDragging = FALSE,
                      !.dragStartScrollLeft = 0])

S_TouchStart ==
    /\ IsS /\ ~car.dragging
    /\ car' = S_dragStart(car)
    /\ UNCHANGED <<pointerOver, focusInside, qa, hero, mq, hdr>>

S_TouchMove ==
    /\ IsS /\ car.dragging /\ ~car.mouseDown
    /\ \E deltaX \in ScrollDragDeltas : car' = S_dragMove(car, deltaX)
    /\ UNCHANGED <<pointerOver, focusInside, qa, hero, mq, hdr>>

S_TouchEnd ==
    /\ IsS /\ car.dragging /\ ~car.mouseDown
    /\ car' = S_dragEnd(car)
    /\ UNCHANGED <<pointerOver, focusInside, qa, hero, mq, hdr>>

S_MouseDown ==
    /\ IsS /\ PointerOnTrack /\ ~car.dragging
    /\ car' = [S_dragStart(car) EXCEPT !.mouseDown = TRUE]
    /\ UNCHANGED <<pointerOver, focusInside, qa, hero, mq, hdr>>

S_MouseMove ==
    /\ IsS /\ PointerOnTrack /\ car.mouseDown
    /\ \E deltaX \in ScrollDragDeltas : car' = S_dragMove(car, deltaX)
    /\ UNCHANGED <<pointerOver, focusInside, qa, hero, mq, hdr>>

S_MouseUp ==
    /\ IsS /\ PointerOnTrack /\ car.mouseDown
    /\ car' = [S_dragEnd(car) EXCEPT !.mouseDown = FALSE]
    /\ UNCHANGED <<pointerOver, focusInside, qa, hero, mq, hdr>>

S_TrackMouseLeave ==
    /\ IsS /\ PointerOnTrack /\ car.mouseDown
    /\ car' = [S_dragEnd(car) EXCEPT !.mouseDown = FALSE]
    /\ UNCHANGED <<pointerOver, focusInside, qa, hero, mq, hdr>>

\* The scroll event of the track
S_ScrollEvent ==
    /\ IsS /\ car.scrollEvtPending
    /\ car' = S_handleScroll([car EXCEPT !.scrollEvtPending = FALSE])
    /\ UNCHANGED <<pointerOver, focusInside, qa, hero, mq, hdr>>

\* The animation frame requested by handleScroll
S_ScrollRaf ==
    /\ IsS /\ car.scrollRafPending
    /\ car' = S_updateActiveState(
                 S_updateActiveSlide([car EXCEPT !.scrollRafPending = FALSE]))
    /\ UNCHANGED <<pointerOver, focusInside, qa, hero, mq, hdr>>

\* A 100 ms timeout of snapToNearestSlide (the callback only recomputes the
\* active slide from the scroll offset, so several pending ones act as one)
S_SnapTimeout ==
    /\ IsS /\ car.snapTimerPending
    /\ car' = S_updateActiveState(
                 S_updateActiveSlide([car EXCEPT !.snapTimerPending = FALSE]))
    /\ UNCHANGED <<pointerOver, focusInside, qa, hero, mq, hdr>>

S_AutoplayTick ==
    /\ IsS /\ (car.autoplayTimer \/ car.leaked > 0)
    /\ car' = S_scrollToNext(car)
    /\ car'.leaked <= MaxLeaked
    /\ UNCHANGED <<pointerOver, focusInside, qa, hero, mq, hdr>>

---------------------------------------------------------------------------
(* Version "v1scroll": assets/hers-header.js, lines 621-911 *)

V_getSlideWidth(c) ==
    c.slideOffsetWidth + (IF c.trackGap = 0 THEN DefaultGapV1 ELSE c.trackGap)

\* updateActiveState(): the index is read from the scroll offset
V_updateActiveState(c) ==
    LET newIndex == RoundDiv(c.scrollLeft, V_getSlideWidth(c))
        c1       == [c EXCEPT !.currentIndex = newIndex]
    IN [c1 EXCEPT
          !.dotsActive   = {i \in 0..(c.numDots - 1) : i = c1.currentIndex},
          !.prevDisabled = c1.currentIndex = 0,
          !.nextDisabled = c1.currentIndex >= c.numSlides - 1]

V_scrollToIndex(c, index) ==
    IF index < 0 \/ index >= c.numSlides THEN c
    ELSE LET c1 == SmoothScrollTo(c, V_getSlideWidth(c), V_getSlideWidth(c) * index)
             c2 == V_updateActiveState([c1 EXCEPT !.currentIndex = index])
         IN IF c2.autoplayEnabled /\ ~c2.isPaused THEN resetAutoplay(c2) ELSE c2

V_scrollToPrev(c) == V_scrollToIndex(c, Max(0, c.currentIndex - 1))

V_scrollToNext(c) == V_scrollToIndex(c, Min(c.numSlides - 1, c.currentIndex + 1))

V_constructor(autoplay, n, slideOffsetWidth, trackGap, trackClientWidth) ==
    [version |-> "v1scroll", inited |-> FALSE,
     autoplayEnabled |-> autoplay,
     autoplayTimer |-> FALSE, leaked |-> 0, isPaused |-> FALSE,
     currentIndex |-> 0,
     numSlides |-> n, numDots |-> n,
     dotsActive |-> {}, prevDisabled |-> FALSE, nextDisabled |-> FALSE,
     slideOffsetWidth |-> slideOffsetWidth, trackGap |-> trackGap,
     trackClientWidth |-> trackClientWidth,
     scrollLeft |-> 0, scrollTarget |-> NoTarget, scrollEvtPending |-> FALSE,
     \* no drag support in this version
     mouseDown |-> FALSE]

V_init(c) ==
    IF c.numSlides = 0 THEN c
    ELSE LET c1 == IF c.autoplayEnabled THEN startAutoplay(c) ELSE c
         IN V_updateActiveState([c1 EXCEPT !.inited = TRUE])

IsV == car.version = "v1scroll" /\ car.inited

V_ClickPrev ==
    /\ IsV /\ ~car.prevDisabled
    /\ car' = V_scrollToPrev(car)
    /\ UNCHANGED <<pointerOver, focusInside, qa, hero, mq, hdr>>

V_ClickNext ==
    /\ IsV /\ ~car.nextDisabled
    /\ car' = V_scrollToNext(car)
    /\ UNCHANGED <<pointerOver, focusInside, qa, hero, mq, hdr>>

V_ClickDot ==
    /\ IsV
    /\ \E index \in 0..(car.numDots - 1) : car' = V_scrollToIndex(car, index)
    /\ UNCHANGED <<pointerOver, focusInside, qa, hero, mq, hdr>>

V_ScrollEvent ==
    /\ IsV /\ car.scrollEvtPending
    /\ car' = V_updateActiveState([car EXCEPT !.scrollEvtPending = FALSE])
    /\ UNCHANGED <<pointerOver, focusInside, qa, hero, mq, hdr>>

V_AutoplayTick ==
    /\ IsV /\ (car.autoplayTimer \/ car.leaked > 0)
    /\ car' = IF car.currentIndex >= car.numSlides - 1
              THEN V_scrollToIndex(car, 0)
              ELSE V_scrollToNext(car)
    /\ car'.leaked <= MaxLeaked
    /\ UNCHANGED <<pointerOver, focusInside, qa, hero, mq, hdr>>

---------------------------------------------------------------------------
(* The browser scrolls the track of a scroll-based version *)

IsScroll == car.version \in {"v2scroll", "v1scroll"} /\ car.inited

ScrollSlideWidth(c) ==
    IF c.version = "v2scroll" THEN S_getSlideWidth(c) ELSE V_getSlideWidth(c)

\* One step of a smooth scroll: to the target, or to a stop on the way to it
SmoothScrollStep ==
    /\ IsScroll /\ car.scrollTarget # NoTarget
    /\ \E target \in car.scrollTarget :
       \E x \in ScrollStops(car, ScrollSlideWidth(car)) \cup {target} :
          /\ \/ (car.scrollLeft < x /\ x <= target)
             \/ (target <= x /\ x < car.scrollLeft)
          /\ car' = [car EXCEPT !.scrollLeft = x,
                                !.scrollTarget = IF x = target THEN NoTarget ELSE @,
                                !.scrollEvtPending = TRUE]
    /\ UNCHANGED <<pointerOver, focusInside, qa, hero, mq, hdr>>

\* The user scrolls the track (wheel, trackpad, scrollbar)
UserScroll ==
    /\ IsScroll /\ ~car.mouseDown
    /\ \E x \in ScrollStops(car, ScrollSlideWidth(car)) \ {car.scrollLeft} :
          car' = [car EXCEPT !.scrollLeft = x, !.scrollTarget = NoTarget,
                             !.scrollEvtPending = TRUE]
    /\ UNCHANGED <<pointerOver, focusInside, qa, hero, mq, hdr>>

---------------------------------------------------------------------------
(* Hover and focus of the section: the same listeners in the three versions *)

\* init attaches the four listeners only with autoplay enabled
IsCar == car.inited /\ car.autoplayEnabled

MouseEnter ==
    /\ IsCar /\ pointerOver = "outside"
    /\ pointerOver' = "inside"
    /\ car' = pauseAutoplay(car)
    /\ UNCHANGED <<focusInside, qa, hero, mq, hdr>>

\* The pointer cannot leave the section while a mouse drag holds the track:
\* the track's own mouseleave comes first
MouseLeave ==
    /\ IsCar /\ pointerOver # "outside" /\ ~car.mouseDown
    /\ pointerOver' = "outside"
    /\ car' = resumeAutoplay(car)
    /\ car'.leaked <= MaxLeaked
    /\ UNCHANGED <<focusInside, qa, hero, mq, hdr>>

FocusIn ==
    /\ IsCar /\ focusInside = "outside"
    /\ focusInside' = "inside"
    /\ car' = pauseAutoplay(car)
    /\ UNCHANGED <<pointerOver, qa, hero, mq, hdr>>

FocusOut ==
    /\ IsCar /\ focusInside # "outside"
    /\ focusInside' = "outside"
    /\ car' = resumeAutoplay(car)
    /\ car'.leaked <= MaxLeaked
    /\ UNCHANGED <<pointerOver, qa, hero, mq, hdr>>

---------------------------------------------------------------------------
(* The carousels *)

InitT ==
    \E loop \in BOOLEAN, autoplay \in BOOLEAN, n \in 0..MaxSlides,
       w \in SlideOffsetWidths, g \in TrackGaps, tw \in TrackOffsetWidths :
        car = T_init(T_constructor(loop, autoplay, n), w, g, tw)

InitS ==
    \E loop \in BOOLEAN, autoplay \in BOOLEAN, n \in 0..MaxScrollSlides,
       w \in SlideOffsetWidths, g \in TrackGaps, tw \in TrackClientWidths :
        car = S_init(S_constructor(loop, autoplay, n, w, g, tw))

InitV ==
    \E autoplay \in BOOLEAN, n \in 0..MaxScrollSlides,
       w \in SlideOffsetWidths, g \in TrackGaps, tw \in TrackClientWidths :
        car = V_init(V_constructor(autoplay, n, w, g, tw))

\* The widgets a specification does not run
IdleCar ==
    /\ car = T_constructor(FALSE, FALSE, 0)
    /\ pointerOver = "outside"
    /\ focusInside = "outside"

IdleQa == qa = <<>>
IdleHero == hero = <<>>
IdleMq == mq = <<>>
IdleHdr == hdr = <<>>

\* Where the pointer and the focus are when init() runs (followed only with
\* autoplay enabled)
InitPointerFocus ==
    /\ pointerOver \in IF car.autoplayEnabled THEN {"outside", "insideAtInit"}
                        ELSE {"outside"}
    /\ focusInside \in IF car.autoplayEnabled THEN {"outside", "insideAtInit"}
                        ELSE {"outside"}

InitCar ==
    /\ (InitT \/ InitS \/ InitV)
    /\ InitPointerFocus
    /\ IdleQa /\ IdleHero /\ IdleMq /\ IdleHdr

NextCar ==
    \/ T_ClickPrev \/ T_ClickNext \/ T_ClickOverlayNext \/ T_ClickDot
    \/ T_TouchStart \/ T_TouchMove \/ T_TouchEnd
    \/ T_MouseDown \/ T_MouseMove \/ T_MouseUp \/ T_TrackMouseLeave
    \/ T_TransitionEnd \/ T_AutoplayTick
    \/ S_ClickPrev \/ S_ClickNext \/ S_ClickOverlayNext \/ S_ClickDot
    \/ S_TouchStart \/ S_TouchMove \/ S_TouchEnd
    \/ S_MouseDown \/ S_MouseMove \/ S_MouseUp \/ S_TrackMouseLeave
    \/ S_ScrollEvent \/ S_ScrollRaf \/ S_SnapTimeout \/ S_AutoplayTick
    \/ V_ClickPrev \/ V_ClickNext \/ V_ClickDot \/ V_ScrollEvent \/ V_AutoplayTick
    \/ SmoothScrollStep \/ UserScroll
    \/ MouseEnter \/ MouseLeave \/ FocusIn \/ FocusOut

SpecCar == InitCar /\ [][NextCar]_vars

\* The transform-based carousel alone, with the scheduling of the browser: an
\* interval timer that is set keeps firing, a running transition ends
InitTransform ==
    /\ InitT
    /\ InitPointerFocus
    /\ IdleQa /\ IdleHero /\ IdleMq /\ IdleHdr

NextTransform ==
    \/ T_ClickPrev \/ T_ClickNext \/ T_ClickOverlayNext \/ T_ClickDot
    \/ T_TouchStart \/ T_TouchMove \/ T_TouchEnd
    \/ T_MouseDown \/ T_MouseMove \/ T_MouseUp \/ T_TrackMouseLeave
    \/ T_TransitionEnd \/ T_AutoplayTick
    \/ MouseEnter \/ MouseLeave \/ FocusIn \/ FocusOut

FairSpecTransform ==
    /\ InitTransform
    /\ [][NextTransform]_vars
    /\ WF_vars(T_AutoplayTick)
    /\ WF_vars(T_TransitionEnd)

---------------------------------------------------------------------------
(* Properties of the carousels *)

\* Loop mode of a carousel record (the first scroll version has none)
Loop(c) == c.version # "v1scroll" /\ c.loopEnabled

\* The number of real slides of a carousel record
RealSlides(c) == IF c.version = "v3transform" THEN c.realSlideCount ELSE c.numSlides

\* C1: in the transform-based carousel, after init and after every handler,
\* currentIndex is the index of a real slide: 0 <= currentIndex <= realSlideCount - 1
C1_IndexOfRealSlide ==
    IsT => (0 <= car.currentIndex /\ car.currentIndex <= car.realSlideCount - 1)

\* C1 witness: a looping carousel has wrapped backwards from the first slide to
\* the last one and is on its way to the start clone
C1_WrappedToLast ==
    /\ IsT /\ car.loopEnabled /\ car.realSlideCount >= 2
    /\ car.currentIndex = car.realSlideCount - 1
    /\ car.currentTranslateX = 0 /\ car.isTransitioning

\* A step in which goToNext ran (arrow, overlay button, autoplay tick, swipe)
GoToNextStep ==
    \/ car' = T_goToNext(car)
    \/ car' = T_goToNext(T_endTouch(car))
    \/ car' = T_goToNext(T_endMouse(car))

\* A step in which goToPrev ran (arrow, swipe)
GoToPrevStep ==
    \/ car' = T_goToPrev(car)
    \/ car' = T_goToPrev(T_endTouch(car))
    \/ car' = T_goToPrev(T_endMouse(car))

\* Offsets of the track in loop mode
StartOffset(c) == c.cloneCount * c.slideWidth
EndOffset(c) == (c.cloneCount + c.realSlideCount) * c.slideWidth
LastOffset(c) == (c.cloneCount + c.realSlideCount - 1) * c.slideWidth

\* C2: loop mode of the transform-based carousel.  goToNext from the last real
\* slide animates the track to the first end clone, at
\* (cloneCount + realSlideCount) * slideWidth, and the end of that transition
\* jumps without animation to cloneCount * slideWidth with currentIndex = 0;
\* goToPrev from the first real slide animates to offset 0, and the end of that
\* transition jumps without animation to
\* (cloneCount + realSlideCount - 1) * slideWidth with currentIndex = realSlideCount - 1
C2_BoundaryCloneAndJump ==
    [][/\ (IsT /\ car.loopEnabled /\ ~car.isTransitioning /\ GoToNextStep
            /\ car.currentIndex = car.realSlideCount - 1)
           => (car'.trackTransform = EndOffset(car) /\ car'.isTransitioning)
       /\ (IsT /\ car.loopEnabled /\ ~car.isTransitioning /\ GoToPrevStep
            /\ car.currentIndex = 0)
           => (car'.trackTransform = 0 /\ car'.isTransitioning)
       /\ (T_TransitionEnd /\ car.loopEnabled /\ car.teListener
            /\ car.currentTranslateX = EndOffset(car))
           => (car'.trackTransform = StartOffset(car) /\ car'.currentIndex = 0
               /\ ~car'.isTransitioning /\ ~car'.transitionRunning)
       /\ (T_TransitionEnd /\ car.loopEnabled /\ car.teListener
            /\ car.currentTranslateX = 0)
           => (car'.trackTransform = LastOffset(car)
               /\ car'.currentIndex = car.realSlideCount - 1
               /\ ~car'.isTransitioning /\ ~car'.transitionRunning)
      ]_vars

\* What an autoplay tick may advance: the active index and where the track goes
Position(c) ==
    IF c.version = "v3transform"
    THEN <<c.currentIndex, c.trackTransform>>
    ELSE <<c.currentIndex, c.scrollTarget>>

AutoplayTickStep == T_AutoplayTick \/ S_AutoplayTick \/ V_AutoplayTick

\* C4: with autoplay enabled, while the pointer is over the section (after
\* mouseenter, before mouseleave) or the focus is inside it (after focusin,
\* before focusout), no autoplay tick advances the slide
C4_NoAdvanceWhileHoveredOrFocused ==
    [][(/\ car.autoplayEnabled
        /\ (pointerOver = "inside" \/ focusInside = "inside")
        /\ AutoplayTickStep)
       => Position(car') = Position(car)]_vars

\* C5: transform-based carousel with autoplay and loop and n real slides.  A
\* tick that fires while autoplay is not paused and no transition is in flight
\* moves currentIndex from i to (i + 1) mod n; and, as long as autoplay is not
\* paused, the active slide keeps changing (with n >= 2)
C5_AutoplayKeepsCycling ==
    /\ [][(/\ T_AutoplayTick /\ car.loopEnabled /\ car.autoplayEnabled
            /\ ~car.isPaused /\ ~car.isTransitioning)
           => car'.currentIndex = (car.currentIndex + 1) % car.realSlideCount]_vars
    /\ (IsT /\ car.loopEnabled /\ car.autoplayEnabled /\ car.realSlideCount >= 2)
          => \/ <>(car.isPaused)
             \/ []<><<car'.currentIndex # car.currentIndex>>_vars

\* C14: transform-based carousel, loop on or off.  After every animated move
\* isTransitioning eventually becomes false again
C14_TransitionEventuallyEnds ==
    [](IsT => (car.isTransitioning ~> ~car.isTransitioning))

\* The interval timers of startAutoplay that are alive
TimersAlive(c) == (IF c.autoplayTimer THEN 1 ELSE 0) + c.leaked

\* C15: in every carousel version at most one autoplay interval timer is alive
\* per carousel, whatever the order of mouseenter, mouseleave, focusin, focusout
\* and navigation, and pauseAutoplay leaves none alive
C15_AtMostOneTimer ==
    /\ [](IsCar => TimersAlive(car) <= 1)
    /\ [][(MouseEnter \/ FocusIn) => TimersAlive(car') = 0]_vars

\* C17: transform-based carousel in loop mode with n >= 1 real slides.  Whenever
\* no transition is in flight and no drag is in progress, the track rests on the
\* real slide named by currentIndex:
\* currentTranslateX = (cloneCount + currentIndex) * slideWidth
C17_RestsOnRealSlide ==
    (IsT /\ car.loopEnabled /\ car.realSlideCount >= 1
       /\ ~car.isTransitioning /\ ~car.isDragging)
      => car.currentTranslateX = (car.cloneCount + car.currentIndex) * car.slideWidth

\* C18: transform-based carousel after cloneSlides with N = cloneCount =
\* min(ceil(trackWidth / slideWidth) + 2, realSlideCount).  The track holds
\* clones of the last N real slides, the real slides, clones of the first N real
\* slides, each group in the order of its originals; so the slide right before
\* the first real slide is a clone of the last real slide and the slide right
\* after the last real slide is a clone of the first one
C18_ClonesInOrder ==
    (IsT /\ car.loopEnabled /\ car.realSlideCount >= 1)
      => LET n == car.realSlideCount
             N == car.cloneCount
             track == car.allSlides
         IN /\ \E tw \in TrackOffsetWidths : N = Min(CeilDiv(tw, car.slideWidth) + 2, n)
            /\ Len(track) = n + (2 * N)
            /\ \A k \in 1..N : track[k] = CloneOf(n - N + k - 1)
            /\ \A k \in 1..n : track[N + k] = RealSlide(k - 1)
            /\ \A k \in 1..N : track[N + n + k] = CloneOf(k - 1)
            /\ track[N] = CloneOf(n - 1)
            /\ track[N + n + 1] = CloneOf(0)

\* C19: transform-based carousel.  While a touch or mouse drag is in progress an
\* autoplay tick changes neither currentIndex nor the track offset
C19_TickLeavesDragAlone ==
    [][(IsT /\ car.isDragging /\ T_AutoplayTick)
         => /\ car'.currentIndex = car.currentIndex
            /\ car'.currentTranslateX = car.currentTranslateX
            /\ car'.trackTransform = car.trackTransform]_vars

\* The slide updateActiveSlide has to pick: the closest centre, lowest index first
ClosestCentre(c, a) ==
    \A j \in 0..(c.numSlides - 1) :
        /\ S_distance2(c, a) <= S_distance2(c, j)
        /\ (S_distance2(c, j) = S_distance2(c, a) => a <= j)

ActiveIsClosest(c) ==
    \E a \in 0..(c.numSlides - 1) :
        /\ c.slidesActive = {a}
        /\ c.currentIndex = a
        /\ ClosestCentre(c, a)

\* The steps of the second version that end with updateActiveSlide
UpdateActiveSlideStep ==
    \/ S_ScrollRaf \/ S_SnapTimeout
    \/ S_ClickPrev \/ S_ClickNext \/ S_ClickOverlayNext \/ S_ClickDot
    \/ S_AutoplayTick

\* C6: second (scroll-based) version: after init and after every step that runs
\* updateActiveSlide, exactly one slide is active, currentIndex is its index, and
\* it is the slide whose centre is closest to the track's centre, the lowest
\* index among slides at equal distance
C6_ActiveSlideIsClosest ==
    /\ (IsS => ActiveIsClosest(car))
    /\ [][UpdateActiveSlideStep => ActiveIsClosest(car')]_vars

\* C6 witness: the track has been scrolled and updateActiveSlide made the second
\* slide the active one
C6_SecondSlideActive ==
    /\ IsS /\ car.scrollLeft > 0 /\ car.scrollTarget = NoTarget
    /\ car.currentIndex = 1 /\ car.slidesActive = {1}
    /\ ~car.scrollRafPending /\ ~car.scrollEvtPending

\* C7: in every version, after every handler: prev is disabled exactly when loop
\* is off and currentIndex = 0, next exactly when loop is off and currentIndex is
\* at or past the last real slide, and the only active dot is the dot of currentIndex
C7_ControlsMatchIndex ==
    car.inited =>
        /\ car.prevDisabled <=> (~Loop(car) /\ car.currentIndex = 0)
        /\ car.nextDisabled <=> (~Loop(car) /\ car.currentIndex >= RealSlides(car) - 1)
        /\ car.dotsActive = {car.currentIndex} \cap (0..(car.numDots - 1))

\* C7 witness: a carousel without loop has been moved to its last slide
C7_AtLastSlideNoLoop ==
    /\ car.inited /\ ~Loop(car) /\ RealSlides(car) >= 2
    /\ car.currentIndex = RealSlides(car) - 1
    /\ car.nextDisabled /\ ~car.prevDisabled
    /\ car.dotsActive = {car.currentIndex}

---------------------------------------------------------------------------
(* Quick add to cart: handleQuickAdd of one button.  The same code in the    *)
(* three carousel versions (assets/gif-media-carousel.js, lines 493-568;     *)
(* assets/hers-header.js, lines 467-556 and 774-857).  Every await is a      *)
(* point where the call waits; alert() blocks the page until dismissed.      *)

\* Largest number of handleQuickAdd calls in flight plus pending 2 s timeouts
MaxQaPending == 2

AddUrl == "/cart/add.js"
CartUrl == "/cart.js"

\* Where a call of handleQuickAdd waits
QaAwaits == {"fetchAdd", "jsonOk", "jsonNotOk", "fetchCart", "jsonCart"}

QA_pending(q) ==
    q.calls["fetchAdd"] + q.calls["jsonOk"] + q.calls["jsonNotOk"]
      + q.calls["fetchCart"] + q.calls["jsonCart"] + q.timers

\* One call moves from await point from to await point to
QA_move(q, from, to) ==
    [q EXCEPT !.calls = [@ EXCEPT ![from] = @ - 1, ![to] = @ + 1]]

\* One call leaves await point from and ends
QA_leave(q, from) ==
    [q EXCEPT !.calls = [@ EXCEPT ![from] = @ - 1]]

\* The catch block; cause tells which step threw
QA_catch(q, cause) ==
    [q EXCEPT !.loading = FALSE, !.disabled = FALSE, !.alertOpen = cause]

\* After the cart update: the 2 s timeout, then the cart drawer
QA_resetAndOpenDrawer(q, drawerThrows) ==
    LET q1 == [q EXCEPT !.timers = @ + 1]
    IN IF ~q.hasDrawer THEN q1
       ELSE IF drawerThrows THEN QA_catch(q1, "followup")
            ELSE [q1 EXCEPT !.drawerOpened = TRUE]

\* Variant of QA_added that fetches the cart without the theme's publish too
QA_added_AlwaysFetchCart(q, drawerThrows) ==
    LET q1 == [q EXCEPT !.loading = FALSE, !.success = TRUE]
    IN [QA_move(q1, "jsonOk", "fetchCart")
          EXCEPT !.requests = @ \cup {CartUrl}]

\* response.ok && !data.status: success state, then the cart update
QA_added(q, drawerThrows) ==
    LET q1 == [q EXCEPT !.loading = FALSE, !.success = TRUE]
    IN IF q.pubsub
       THEN [QA_move(q1, "jsonOk", "fetchCart")
               EXCEPT !.requests = @ \cup {CartUrl}]
       ELSE QA_resetAndOpenDrawer(
               [QA_leave(q1, "jsonOk") EXCEPT !.cartRefreshDispatched = TRUE],
               drawerThrows)

\* The page when the button is rendered
QA_button(hasVariantId, pubsub, hasDrawer) ==
    [hasVariantId |-> hasVariantId,   \* the button has data-variant-id
     pubsub |-> pubsub,               \* publish and PUB_SUB_EVENTS are defined
     hasDrawer |-> hasDrawer,         \* a cart-drawer element with an open function
     disabled |-> FALSE, loading |-> FALSE, success |-> FALSE,
     calls |-> [a \in QaAwaits |-> 0],
     timers |-> 0,                    \* pending 2 s timeouts
     requests |-> {},                 \* the URLs requested so far
     alertOpen |-> "none",            \* "none", or what threw: "add", "followup"
     cartRefreshDispatched |-> FALSE, published |-> FALSE, drawerOpened |-> FALSE]

IsQa == qa # <<>>

\* No script runs while an alert is open
QaRuns == IsQa /\ qa.alertOpen = "none"

\* click on a quick add button (a disabled button gets no click)
QA_Click ==
    /\ QaRuns /\ ~qa.disabled /\ QA_pending(qa) < MaxQaPending
    /\ qa' = IF ~qa.hasVariantId THEN qa
             ELSE [qa EXCEPT !.disabled = TRUE, !.loading = TRUE,
                             !.requests = @ \cup {AddUrl},
                             !.calls = [@ EXCEPT !["fetchAdd"] = @ + 1]]
    /\ UNCHANGED <<car, pointerOver, focusInside, hero, mq, hdr>>

\* fetch('/cart/add.js') settles: network error, or a response that is ok or not
QA_AddSettles ==
    /\ QaRuns /\ qa.calls["fetchAdd"] > 0
    /\ \E outcome \in {"reject", "ok", "notOk"} :
          qa' = CASE outcome = "reject" -> QA_catch(QA_leave(qa, "fetchAdd"), "add")
                  [] outcome = "ok"     -> QA_move(qa, "fetchAdd", "jsonOk")
                  [] outcome = "notOk"  -> QA_move(qa, "fetchAdd", "jsonNotOk")
    /\ UNCHANGED <<car, pointerOver, focusInside, hero, mq, hdr>>

\* response.json() of an ok response settles: no JSON, a body with a status
\* field, or a line item
QA_AddBodyOfOk ==
    /\ QaRuns /\ qa.calls["jsonOk"] > 0
    /\ \E body \in {"reject", "status", "item"}, drawerThrows \in BOOLEAN :
          qa' = IF body = "item" THEN QA_added(qa, drawerThrows)
                ELSE QA_catch(QA_leave(qa, "jsonOk"), "add")
    /\ UNCHANGED <<car, pointerOver, focusInside, hero, mq, hdr>>

\* response.json() of a response that is not ok settles
QA_AddBodyOfNotOk ==
    /\ QaRuns /\ qa.calls["jsonNotOk"] > 0
    /\ qa' = QA_catch(QA_leave(qa, "jsonNotOk"), "add")
    /\ UNCHANGED <<car, pointerOver, focusInside, hero, mq, hdr>>

\* fetch('/cart.js') settles
QA_CartSettles ==
    /\ QaRuns /\ qa.calls["fetchCart"] > 0
    /\ \E outcome \in {"reject", "response"} :
          qa' = IF outcome = "reject"
                THEN QA_catch(QA_leave(qa, "fetchCart"), "followup")
                ELSE QA_move(qa, "fetchCart", "jsonCart")
    /\ UNCHANGED <<car, pointerOver, focusInside, hero, mq, hdr>>

\* cartResponse.json() settles; then publish, the 2 s timeout, the drawer
QA_CartBody ==
    /\ QaRuns /\ qa.calls["jsonCart"] > 0
    /\ \E outcome \in {"reject", "publishThrows", "published"}, drawerThrows \in BOOLEAN :
          qa' = IF outcome = "published"
                THEN QA_resetAndOpenDrawer(
                        [QA_leave(qa, "jsonCart") EXCEPT !.published = TRUE],
                        drawerThrows)
                ELSE QA_catch(QA_leave(qa, "jsonCart"), "followup")
    /\ UNCHANGED <<car, pointerOver, focusInside, hero, mq, hdr>>

\* The 2 s timeout after a success
QA_ResetTimeout ==
    /\ QaRuns /\ qa.timers > 0
    /\ qa' = [qa EXCEPT !.success = FALSE, !.disabled = FALSE, !.timers = @ - 1]
    /\ UNCHANGED <<car, pointerOver, focusInside, hero, mq, hdr>>

\* The user dismisses the alert
QA_DismissAlert ==
    /\ IsQa /\ qa.alertOpen # "none"
    /\ qa' = [qa EXCEPT !.alertOpen = "none"]
    /\ UNCHANGED <<car, pointerOver, focusInside, hero, mq, hdr>>

InitQuickAdd ==
    /\ \E hasVariantId \in BOOLEAN, pubsub \in BOOLEAN, hasDrawer \in BOOLEAN :
          qa = QA_button(hasVariantId, pubsub, hasDrawer)
    /\ IdleCar /\ IdleHero /\ IdleMq /\ IdleHdr

NextQuickAdd ==
    \/ QA_Click \/ QA_AddSettles \/ QA_AddBodyOfOk \/ QA_AddBodyOfNotOk
    \/ QA_CartSettles \/ QA_CartBody \/ QA_ResetTimeout \/ QA_DismissAlert

SpecQuickAdd == InitQuickAdd /\ [][NextQuickAdd]_vars

\* Every request settles, every timeout fires and every alert is dismissed; the
\* user is free to click or not
FairSpecQuickAdd ==
    /\ SpecQuickAdd
    /\ WF_vars(QA_AddSettles) /\ WF_vars(QA_AddBodyOfOk) /\ WF_vars(QA_AddBodyOfNotOk)
    /\ WF_vars(QA_CartSettles) /\ WF_vars(QA_CartBody)
    /\ WF_vars(QA_ResetTimeout) /\ WF_vars(QA_DismissAlert)

\* C3 as stated: every request of every path of quick add targets /cart/add.js
C3_OnlyCartAdd == IsQa => qa.requests \subseteq {AddUrl}

\* C3, amended: every request targets /cart/add.js, except that quick add also
\* requests /cart.js, and only when the theme defines publish and
\* PUB_SUB_EVENTS, after an add request, first in the step that marks the
\* button successful; no other URL is requested
C3_CartAddAndCartOnly ==
    /\ [](IsQa => /\ qa.requests \subseteq {AddUrl, CartUrl}
                  /\ (CartUrl \in qa.requests => qa.pubsub /\ AddUrl \in qa.requests))
    /\ [][(IsQa /\ CartUrl \notin qa.requests /\ CartUrl \in qa'.requests)
            => (qa'.success /\ ~qa.success)]_vars

\* C3 witness: a successful add with the theme's publish has requested both URLs
C3_BothRequested ==
    IsQa /\ qa.requests = {AddUrl, CartUrl} /\ qa.published /\ qa.success

\* The button is as it was rendered: enabled, neither loading nor success
QaButtonAtRest == ~qa.disabled /\ ~qa.loading /\ ~qa.success

\* C13: a click on a button with a variant id disables it and marks it loading;
\* when the requests of the attempts complete, the button eventually is enabled
\* again and carries neither the loading nor the success class
C13_ButtonEventuallyReset ==
    /\ [][(QA_Click /\ qa.hasVariantId) => (qa'.disabled /\ qa'.loading)]_vars
    /\ [](IsQa => ((qa.disabled \/ qa.loading \/ qa.success) ~> QaButtonAtRest))

\* C20: the error alert is shown only when the add request itself failed; once
\* /cart/add.js has succeeded, a failure of the follow-up steps shows no alert
\* and does not keep the success class from being removed after 2 seconds (a
\* button with the success class has its follow-up running or its timeout set)
C20_AlertOnlyWhenAddFailed ==
    IsQa => /\ qa.alertOpen \in {"none", "add"}
            /\ qa.success => \/ qa.timers > 0
                              \/ qa.calls["fetchCart"] + qa.calls["jsonCart"] > 0

---------------------------------------------------------------------------
(* The hero section: headline rotation (assets/hers-hero.js) *)

\* Largest number of headline items
MaxHeadlines == 3
\* Largest number of pending 100 ms timeouts of rotateHeadlines
MaxHeadlineTimeouts == 2

\* The delay of the timeout that activates the next headline, in ms
ActivateDelay == 100

\* parseInt(intervalSetting, 10): seconds; 0 stands for NaN too (setInterval
\* takes NaN as 0), 5 is the default
RotationIntervalSettings == {0, 1, 5}

\* this.cards.length
CardCounts == {0, 2}

H_constructor(n, cards, reducedMotion, intervalSetting) ==
    [n |-> n,                         \* headlineItems.length
     cards |-> cards,                 \* cards.length
     reducedMotion |-> reducedMotion,
     scrollObserver |-> FALSE,        \* the IntersectionObserver exists
     observedCards |-> 0,             \* the cards it still observes
     parallaxListener |-> FALSE,      \* the scroll listener of initParallax is installed
     parallaxTicking |-> FALSE,       \* its ticking flag: updateParallax is requested
     cardListeners |-> 0,             \* the cards that carry the four card listeners
     intervalMs |-> intervalSetting * 1000,
     rotationInterval |-> FALSE,      \* the interval timer is set
     currentHeadlineIndex |-> 0,
     active |-> {},                   \* the items with hers-hero__headline-item--active
     timeouts |-> <<>>,               \* pending 100 ms timeouts, oldest first; each
                                      \* one holds the index its tick moved to
     connected |-> TRUE]

H_initHeadlineRotation(h) ==
    IF h.n < 2
    THEN IF h.n = 1 THEN [h EXCEPT !.active = @ \cup {0}] ELSE h
    ELSE [h EXCEPT !.active = @ \cup {0}, !.rotationInterval = TRUE]

\* initScrollAnimations(): one observer, observing every card
H_initScrollAnimations(h) ==
    [h EXCEPT !.scrollObserver = TRUE, !.observedCards = h.cards]

\* initParallax()
H_initParallax(h) ==
    IF h.reducedMotion THEN h ELSE [h EXCEPT !.parallaxListener = TRUE]

\* initCardInteractions(): mouseenter, keydown, touchstart and touchend on every card
H_initCardInteractions(h) ==
    [h EXCEPT !.cardListeners = h.cards]

\* Variant of H_init that does not return early under reduced motion
H_init_NoEarlyReturn(h) ==
    H_initCardInteractions(H_initParallax(H_initScrollAnimations(
        H_initHeadlineRotation(h))))

H_init(h) ==
    IF h.reducedMotion
    THEN IF h.n > 0 THEN [h EXCEPT !.active = @ \cup {0}] ELSE h
    ELSE H_initCardInteractions(H_initParallax(H_initScrollAnimations(
             H_initHeadlineRotation(h))))

\* Variant of H_rotateHeadlines that leaves the active class on the current item
H_rotateHeadlines_KeepActive(h) ==
    LET next == (h.currentHeadlineIndex + 1) % h.n
    IN [h EXCEPT !.currentHeadlineIndex = next,
                 !.timeouts = Append(@, next)]

\* rotateHeadlines(): the callback of the interval timer
H_rotateHeadlines(h) ==
    LET next == (h.currentHeadlineIndex + 1) % h.n
    IN [h EXCEPT !.active = @ \ {h.currentHeadlineIndex},
                 !.currentHeadlineIndex = next,
                 !.timeouts = Append(@, next)]

\* The callback of the 100 ms timeout: the index is read when it runs
H_activate(h) ==
    [h EXCEPT !.active = @ \cup {h.currentHeadlineIndex},
              !.timeouts = Tail(@)]

IsHero == hero # <<>>

\* The interval timer fires.  A timeout set by the tick before is due earlier
\* than this tick when the interval is longer than the timeout's delay
H_IntervalTick ==
    /\ IsHero /\ hero.rotationInterval
    /\ hero.intervalMs > ActivateDelay => hero.timeouts = <<>>
    /\ Len(hero.timeouts) < MaxHeadlineTimeouts
    /\ hero' = H_rotateHeadlines(hero)
    /\ UNCHANGED <<car, pointerOver, focusInside, qa, mq, hdr>>

\* The oldest 100 ms timeout fires
H_ActivateTimeout ==
    /\ IsHero /\ hero.timeouts # <<>>
    /\ hero' = H_activate(hero)
    /\ UNCHANGED <<car, pointerOver, focusInside, qa, mq, hdr>>

\* disconnectedCallback(): the element leaves the document
H_Disconnected ==
    /\ IsHero /\ hero.connected
    /\ hero' = [hero EXCEPT !.connected = FALSE, !.rotationInterval = FALSE]
    /\ UNCHANGED <<car, pointerOver, focusInside, qa, mq, hdr>>

\* The element is put back into the document: no callback is defined for it
H_Connected ==
    /\ IsHero /\ ~hero.connected
    /\ hero' = [hero EXCEPT !.connected = TRUE]
    /\ UNCHANGED <<car, pointerOver, focusInside, qa, mq, hdr>>

\* The observer's callback for one card that intersects: the card becomes
\* visible and is no longer observed
H_CardIntersects ==
    /\ IsHero /\ hero.observedCards > 0
    /\ hero' = [hero EXCEPT !.observedCards = @ - 1]
    /\ UNCHANGED <<car, pointerOver, focusInside, qa, mq, hdr>>

\* The scroll listener of initParallax
H_ParallaxScroll ==
    /\ IsHero /\ hero.parallaxListener /\ ~hero.parallaxTicking
    /\ hero' = [hero EXCEPT !.parallaxTicking = TRUE]
    /\ UNCHANGED <<car, pointerOver, focusInside, qa, mq, hdr>>

\* updateParallax(): the requested frame; it writes the section's transform only
H_ParallaxFrame ==
    /\ IsHero /\ hero.parallaxTicking
    /\ hero' = [hero EXCEPT !.parallaxTicking = FALSE]
    /\ UNCHANGED <<car, pointerOver, focusInside, qa, mq, hdr>>

InitHero ==
    /\ \E n \in 0..MaxHeadlines, cards \in CardCounts, reducedMotion \in BOOLEAN,
          intervalSetting \in RotationIntervalSettings :
          hero = H_init(H_constructor(n, cards, reducedMotion, intervalSetting))
    /\ IdleCar /\ IdleQa /\ IdleMq /\ IdleHdr

NextHero ==
    \/ H_IntervalTick \/ H_ActivateTimeout \/ H_Disconnected \/ H_Connected
    \/ H_CardIntersects \/ H_ParallaxScroll \/ H_ParallaxFrame

SpecHero == InitHero /\ [][NextHero]_vars

\* The hero rotates: at least two headlines, no reduced-motion preference
Rotates == IsHero /\ hero.n >= 2 /\ ~hero.reducedMotion

\* At most one headline is active and, if one is, it is headlineItems[currentHeadlineIndex]
OnlyCurrentActive == hero.active \subseteq {hero.currentHeadlineIndex}

\* A tick deactivates the current headline and moves the index to the next one
TickMovesOn ==
    /\ hero'.active = hero.active \ {hero.currentHeadlineIndex}
    /\ hero'.currentHeadlineIndex = (hero.currentHeadlineIndex + 1) % hero.n

\* C9 as stated: headline 0 is active at load; every tick deactivates the
\* current headline and moves currentHeadlineIndex to (currentHeadlineIndex + 1)
\* mod n; the timeout of a tick activates the headline that tick moved to; at
\* most one headline is active and it is headlineItems[currentHeadlineIndex]
C9_TimeoutActivatesItsHeadline ==
    /\ (Rotates => hero.active = {0} /\ hero.currentHeadlineIndex = 0)
    /\ [](Rotates => OnlyCurrentActive)
    /\ [][(Rotates /\ H_IntervalTick) => TickMovesOn]_vars
    /\ [][(Rotates /\ H_ActivateTimeout) => hero'.active = {Head(hero.timeouts)}]_vars

\* C9, amended: as above, but the timeout activates the headline that is current
\* when it runs; that is the headline its tick moved to when the interval is
\* longer than the 100 ms delay
C9_TimeoutActivatesCurrent ==
    /\ (Rotates => hero.active = {0} /\ hero.currentHeadlineIndex = 0)
    /\ [](Rotates => OnlyCurrentActive)
    /\ [][(Rotates /\ H_IntervalTick) => TickMovesOn]_vars
    /\ [][(Rotates /\ H_ActivateTimeout)
            => /\ hero'.active = {hero.currentHeadlineIndex}
               /\ hero'.currentHeadlineIndex = hero.currentHeadlineIndex
               /\ (hero.intervalMs > ActivateDelay
                     => Head(hero.timeouts) = hero.currentHeadlineIndex)]_vars

\* C9 witness: the rotation has reached the last headline and its timeout has
\* made it the active one
C9_LastHeadlineActive ==
    /\ Rotates /\ hero.n = MaxHeadlines /\ hero.intervalMs > ActivateDelay
    /\ hero.currentHeadlineIndex = hero.n - 1 /\ hero.active = {hero.n - 1}
    /\ hero.timeouts = <<>>

\* C11: under prefers-reduced-motion the hero installs no rotation interval, no
\* scroll observer, no parallax listener and no card listener, at init or later;
\* no headline but the first is made active, the first one is if there is one,
\* and the active headline never changes
C11_ReducedMotionStatic ==
    /\ [](IsHero /\ hero.reducedMotion
            => /\ ~hero.rotationInterval /\ hero.timeouts = <<>>
               /\ ~hero.scrollObserver /\ hero.observedCards = 0
               /\ ~hero.parallaxListener /\ ~hero.parallaxTicking
               /\ hero.cardListeners = 0
               /\ hero.active = (IF hero.n > 0 THEN {0} ELSE {}))
    /\ [][IsHero /\ hero.reducedMotion
            => /\ hero'.active = hero.active
               /\ hero'.currentHeadlineIndex = hero.currentHeadlineIndex]_vars

\* C11 witness: a hero with cards and several headlines under reduced motion has
\* been initialised and has left the document since
C11_ReducedMotionDisconnected ==
    /\ IsHero /\ hero.reducedMotion /\ hero.n = MaxHeadlines /\ hero.cards > 0
    /\ ~hero.connected /\ hero.active = {0}

---------------------------------------------------------------------------
(* The sticky header: HersHeaderWrapper (assets/hers-header.js, lines 6-43) *)

\* Largest number of requested animation frames the model follows
MaxRafPending == 2

\* The header is marked scrolled above this scroll offset
ScrolledAbove == 10

\* window.pageYOffset
ScrollOffsets == {0, 5, 10, 11, 50, 200}

HD_constructor(scrollY) ==
    [scrollY |-> scrollY,
     scrollEvtPending |-> FALSE,   \* a scroll event waits to be dispatched
     lastScroll |-> 0, ticking |-> FALSE,
     rafPending |-> 0,             \* requested animation frame callbacks not yet run
     scrolled |-> FALSE,           \* the class hers-header-wrapper--scrolled
     frameHasRun |-> FALSE]

\* Variant of HD_handleScroll that requests a frame for every scroll event
HD_handleScroll_Unthrottled(h) ==
    [h EXCEPT !.rafPending = @ + 1]

\* handleScroll(): the scroll listener
HD_handleScroll(h) ==
    IF ~h.ticking THEN [h EXCEPT !.rafPending = @ + 1, !.ticking = TRUE]
    ELSE h

\* The callback passed to requestAnimationFrame
HD_frame(h) ==
    [h EXCEPT !.scrolled = h.scrollY > ScrolledAbove,
              !.lastScroll = h.scrollY,
              !.ticking = FALSE,
              !.rafPending = @ - 1,
              !.frameHasRun = TRUE]

IsHdr == hdr # <<>>

\* The page is scrolled; the browser will dispatch a scroll event
HD_WindowScroll ==
    /\ IsHdr
    /\ \E y \in ScrollOffsets \ {hdr.scrollY} :
          hdr' = [hdr EXCEPT !.scrollY = y, !.scrollEvtPending = TRUE]
    /\ UNCHANGED <<car, pointerOver, focusInside, qa, hero, mq>>

\* The scroll event is dispatched
HD_ScrollEvent ==
    /\ IsHdr /\ hdr.scrollEvtPending
    /\ hdr' = HD_handleScroll([hdr EXCEPT !.scrollEvtPending = FALSE])
    /\ hdr'.rafPending <= MaxRafPending
    /\ UNCHANGED <<car, pointerOver, focusInside, qa, hero, mq>>

\* A requested animation frame callback runs
HD_Frame ==
    /\ IsHdr /\ hdr.rafPending > 0
    /\ hdr' = HD_frame(hdr)
    /\ UNCHANGED <<car, pointerOver, focusInside, qa, hero, mq>>

InitHeader ==
    /\ \E y \in ScrollOffsets : hdr = HD_constructor(y)
    /\ IdleCar /\ IdleQa /\ IdleHero /\ IdleMq

NextHeader == HD_WindowScroll \/ HD_ScrollEvent \/ HD_Frame

SpecHeader == InitHeader /\ [][NextHeader]_vars

\* Scrolling has stopped and every requested frame has run
HeaderAtRest == ~hdr.scrollEvtPending /\ hdr.rafPending = 0 /\ hdr.frameHasRun

\* C10: at most one animation frame callback is pending at any time; each
\* callback sets hers-header-wrapper--scrolled exactly when the scroll offset it
\* reads is greater than 10; once scrolling has stopped and the pending frame
\* has run, the class is present exactly when the final offset is greater than 10
C10_ThrottledScrolledClass ==
    /\ [](IsHdr => hdr.rafPending <= 1)
    /\ [][HD_Frame => (hdr'.scrolled <=> hdr.scrollY > ScrolledAbove)]_vars
    /\ []((IsHdr /\ HeaderAtRest) => (hdr.scrolled <=> hdr.scrollY > ScrolledAbove))

\* C10 witness: the page was scrolled down and back to an offset of 10 and has
\* come to rest without the class
C10_AtRestAtThreshold ==
    /\ IsHdr /\ HeaderAtRest /\ hdr.scrollY = ScrolledAbove /\ ~hdr.scrolled
    /\ hdr.lastScroll = ScrolledAbove

---------------------------------------------------------------------------
(* The labs-hero marquee: HersLabsHero (assets/hers-labs-hero.js).  Offsets   *)
(* are in half pixels (the speed is 0.5 px per frame): x2 = 2 * x.            *)

\* The speed without reduced motion, in half pixels per frame
HalfPixelsPerFrame == 1
\* The loop of initSeamlessMarquee stops cloning at this number of sets
MaxMarqueeSets == 10

\* firstSet.offsetWidth (0: the section is not laid out), window.innerWidth
SetWidths == {0, 2, 3}
ViewportWidths == {3, 6}
\* The sets of the markup
MarkupSets == {0, 1, 2}

\* startAnimationLoop(): cancel the requested frame, request the first one
MQ_startAnimationLoop(m) == [m EXCEPT !.frame = TRUE]

\* The sets after the cloning of initSeamlessMarquee
MQ_setsAfterCloning(numSets, viewportWidth, setWidth) ==
    LET atLeastTwo    == IF numSets < 2 THEN numSets + 1 ELSE numSets
        minSetsNeeded == CeilDiv(viewportWidth * 2, setWidth) + 2
    IN Max(atLeastTwo, Min(minSetsNeeded, MaxMarqueeSets))

\* Variant of MQ_initSeamlessMarquee that keeps the speed of the constructor
MQ_initSeamlessMarquee_KeepSpeed(m) ==
    IF ~m.hasTrack THEN m
    ELSE LET m1 == [m EXCEPT !.frame = FALSE]
         IN IF m.numSets = 0 THEN m1
            ELSE IF m.measuredWidth = 0 THEN [m1 EXCEPT !.retryPending = TRUE]
            ELSE MQ_startAnimationLoop(
                   [m1 EXCEPT
                      !.setWidth = m.measuredWidth,
                      !.numSets = MQ_setsAfterCloning(m.numSets, m.viewportWidth,
                                                      m.measuredWidth),
                      !.x2 = 0, !.styleX2 = 0])

\* initSeamlessMarquee()
MQ_initSeamlessMarquee(m) ==
    IF ~m.hasTrack THEN m
    ELSE LET m1 == [m EXCEPT !.frame = FALSE]
         IN IF m.numSets = 0 THEN m1
            ELSE IF m.measuredWidth = 0 THEN [m1 EXCEPT !.retryPending = TRUE]
            ELSE MQ_startAnimationLoop(
                   [m1 EXCEPT
                      !.setWidth = m.measuredWidth,
                      !.numSets = MQ_setsAfterCloning(m.numSets, m.viewportWidth,
                                                      m.measuredWidth),
                      !.x2 = 0, !.styleX2 = 0,
                      !.reducedMotion = m.prefersReduced,
                      !.speed2 = IF m.prefersReduced THEN 0 ELSE HalfPixelsPerFrame])

\* Variant of MQ_loop that wraps only after passing -setWidth
MQ_loop_WrapLate(m) ==
    LET moved   == m.x2 - m.speed2
        wrapped == IF moved < -(2 * m.setWidth) THEN moved + (2 * m.setWidth) ELSE moved
    IN [m EXCEPT !.x2 = wrapped,
                 !.styleX2 = IF m.hasTrack /\ m.setWidth > 0 THEN wrapped ELSE @,
                 !.frame = TRUE]

\* loop(): one animation frame
MQ_loop(m) ==
    LET moved   == m.x2 - m.speed2
        wrapped == IF moved <= -(2 * m.setWidth) THEN moved + (2 * m.setWidth) ELSE moved
    IN [m EXCEPT !.x2 = wrapped,
                 !.styleX2 = IF m.hasTrack /\ m.setWidth > 0 THEN wrapped ELSE @,
                 !.frame = TRUE]

\* The data-section-id attribute of the element: none, the id of the labs-hero
\* section, or an id that no element of the document carries
SectionIdAttributes == {"absent", "section", "unknown"}

\* The constructor.  sectionIdAttr is the attribute the element has when it is
\* constructed: querySelector finds an element only for the id of the section
\* (an absent attribute is looked up as the id "null")
MQ_constructor(sectionIdAttr, hasTrack, numSets, measuredWidth, viewportWidth, prefersReduced) ==
    [sectionIdAttr |-> sectionIdAttr,
     wrapped |-> FALSE,                     \* created by initializeHersLabsHero
     trackInSection |-> hasTrack,           \* the section's markup has a marquee track
     section |-> sectionIdAttr = "section", \* this.section is not null
     hasTrack |-> sectionIdAttr = "section" /\ hasTrack,
     numSets |-> numSets,
     measuredWidth |-> measuredWidth, viewportWidth |-> viewportWidth,
     prefersReduced |-> prefersReduced,     \* the preference of the user, now
     reducedMotion |-> prefersReduced,
     speed2 |-> IF prefersReduced THEN 0 ELSE HalfPixelsPerFrame,
     frame |-> FALSE,                       \* animationFrameId names a requested frame
     x2 |-> 0, styleX2 |-> 0, setWidth |-> 0,
     resizeTimeout |-> FALSE, retryPending |-> FALSE,
     imagesLoaded |-> FALSE,
     imagesPending |-> FALSE,               \* the promise of waitForImagesToLoad is not settled
     connected |-> TRUE]

\* init(): wait for the images, listen to resize
MQ_init(m) ==
    IF ~m.section THEN m ELSE [m EXCEPT !.imagesPending = TRUE]

\* initializeHersLabsHero() for one section that is not initialised yet:
\* createElement runs the constructor, and with it init, on an element without
\* attributes; the attribute is set and the section is moved in afterwards
MQ_initializeHersLabsHero(hasTrack, numSets, measuredWidth, viewportWidth, prefersReduced) ==
    LET wrapper == MQ_init(MQ_constructor("absent", hasTrack, numSets, measuredWidth,
                                          viewportWidth, prefersReduced))
    IN [wrapper EXCEPT !.sectionIdAttr = "section", !.wrapped = TRUE]

IsMq == mq # <<>>

\* DOMContentLoaded or shopify:section:load: initializeHersLabsHero wraps the
\* section of the page
MQ_InitializeHersLabsHero ==
    /\ mq = <<>>
    /\ \E hasTrack \in BOOLEAN, numSets \in MarkupSets, w \in SetWidths,
          vw \in ViewportWidths, prefersReduced \in BOOLEAN :
          mq' = MQ_initializeHersLabsHero(hasTrack, numSets, w, vw, prefersReduced)
    /\ UNCHANGED <<car, pointerOver, focusInside, qa, hero, hdr>>

\* The promise of waitForImagesToLoad settles (then and catch do the same)
MQ_ImagesSettled ==
    /\ IsMq /\ mq.imagesPending
    /\ mq' = MQ_initSeamlessMarquee(
                [mq EXCEPT !.imagesPending = FALSE, !.imagesLoaded = TRUE])
    /\ UNCHANGED <<car, pointerOver, focusInside, qa, hero, hdr>>

\* resize of the window: the listener restarts the 250 ms timeout
MQ_WindowResize ==
    /\ IsMq
    /\ \E w \in SetWidths, vw \in ViewportWidths :
          mq' = [mq EXCEPT !.measuredWidth = w, !.viewportWidth = vw,
                           !.resizeTimeout = IF mq.section THEN TRUE ELSE @]
    /\ UNCHANGED <<car, pointerOver, focusInside, qa, hero, hdr>>

\* The 250 ms timeout of the resize listener
MQ_ResizeTimeout ==
    /\ IsMq /\ mq.resizeTimeout
    /\ mq' = LET m1 == [mq EXCEPT !.resizeTimeout = FALSE]
             IN IF m1.imagesLoaded /\ m1.hasTrack
                THEN MQ_initSeamlessMarquee([m1 EXCEPT !.frame = FALSE])
                ELSE m1
    /\ UNCHANGED <<car, pointerOver, focusInside, qa, hero, hdr>>

\* The 100 ms retry timeout of initSeamlessMarquee (the callback starts over, so
\* several pending ones act as one)
MQ_RetryTimeout ==
    /\ IsMq /\ mq.retryPending
    /\ mq' = MQ_initSeamlessMarquee([mq EXCEPT !.retryPending = FALSE])
    /\ UNCHANGED <<car, pointerOver, focusInside, qa, hero, hdr>>

\* The requested animation frame
MQ_Frame ==
    /\ IsMq /\ mq.frame
    /\ mq' = MQ_loop(mq)
    /\ UNCHANGED <<car, pointerOver, focusInside, qa, hero, hdr>>

\* disconnectedCallback()
MQ_Disconnected ==
    /\ IsMq /\ mq.connected
    /\ mq' = [mq EXCEPT !.connected = FALSE, !.frame = FALSE, !.resizeTimeout = FALSE]
    /\ UNCHANGED <<car, pointerOver, focusInside, qa, hero, hdr>>

\* The section is laid out anew without a resize of the window (shown, hidden)
MQ_LayoutChange ==
    /\ IsMq
    /\ \E w \in SetWidths \ {mq.measuredWidth} :
          mq' = [mq EXCEPT !.measuredWidth = w]
    /\ UNCHANGED <<car, pointerOver, focusInside, qa, hero, hdr>>

\* The user changes the reduced-motion preference
MQ_PreferenceChange ==
    /\ IsMq
    /\ mq' = [mq EXCEPT !.prefersReduced = ~@]
    /\ UNCHANGED <<car, pointerOver, focusInside, qa, hero, hdr>>

\* Either the page's markup holds a hers-labs-hero element with a
\* data-section-id attribute, upgraded when the class is defined, or it holds a
\* labs-hero section that initializeHersLabsHero has yet to wrap
InitMarquee ==
    /\ \/ \E sectionIdAttr \in {"section", "unknown"}, hasTrack \in BOOLEAN,
             numSets \in MarkupSets, w \in SetWidths, vw \in ViewportWidths,
             prefersReduced \in BOOLEAN :
             mq = MQ_init(MQ_constructor(sectionIdAttr, hasTrack, numSets, w, vw,
                                         prefersReduced))
       \/ mq = <<>>
    /\ IdleCar /\ IdleQa /\ IdleHero /\ IdleHdr

NextMarquee ==
    \/ MQ_InitializeHersLabsHero
    \/ MQ_ImagesSettled \/ MQ_WindowResize \/ MQ_ResizeTimeout \/ MQ_RetryTimeout
    \/ MQ_Frame \/ MQ_Disconnected \/ MQ_LayoutChange \/ MQ_PreferenceChange

SpecMarquee == InitMarquee /\ [][NextMarquee]_vars

\* The promise of the images settles, timeouts fire, requested frames run
FairSpecMarquee ==
    /\ SpecMarquee
    /\ WF_vars(MQ_ImagesSettled) /\ WF_vars(MQ_ResizeTimeout)
    /\ WF_vars(MQ_RetryTimeout) /\ WF_vars(MQ_Frame)

\* C8: once the loop runs with setWidth > 0, the offset satisfies
\* -setWidth < currentTranslateX <= 0 after every frame; a frame lowers the
\* offset by speed and, on reaching -setWidth, adds setWidth back
C8_OffsetWithinOneSet ==
    /\ []((IsMq /\ mq.setWidth > 0)
            => (-(2 * mq.setWidth) < mq.x2 /\ mq.x2 <= 0 /\ mq.styleX2 = mq.x2))
    /\ []((IsMq /\ mq.frame) => mq.setWidth > 0)
    /\ [][MQ_Frame
            => mq'.x2 = IF mq.x2 - mq.speed2 <= -(2 * mq.setWidth)
                        THEN (mq.x2 - mq.speed2) + (2 * mq.setWidth)
                        ELSE mq.x2 - mq.speed2]_vars

\* C8 witness: the loop runs and the offset is one frame before the wrap
C8_BeforeWrap ==
    /\ IsMq /\ mq.frame /\ mq.setWidth = 3 /\ mq.speed2 = HalfPixelsPerFrame
    /\ mq.x2 = HalfPixelsPerFrame - (2 * mq.setWidth)

\* The steps that run initSeamlessMarquee
MQ_Initialises == MQ_ImagesSettled \/ MQ_ResizeTimeout \/ MQ_RetryTimeout

\* C12: the reduced-motion preference does not keep the marquee from being
\* initialised or its loop from running; every initialisation that starts the
\* loop reads the preference anew and sets speed 0 under reduced motion, 0.5
\* otherwise; with the preference read as reduced the offset is 0 and stays 0
\* in every frame
C12_ReducedMotionSpeedZero ==
    /\ []((IsMq /\ mq.reducedMotion)
            => (mq.speed2 = 0 /\ mq.x2 = 0 /\ mq.styleX2 = 0))
    /\ [][(MQ_Initialises /\ mq'.frame)
            => /\ mq'.reducedMotion = mq.prefersReduced
               /\ mq'.speed2 = (IF mq.prefersReduced THEN 0 ELSE HalfPixelsPerFrame)]_vars
    /\ [][(MQ_ImagesSettled /\ mq.hasTrack /\ mq.numSets > 0 /\ mq.measuredWidth > 0)
            => mq'.frame]_vars
    /\ [][MQ_Frame => (mq'.frame /\ (mq.reducedMotion => mq'.x2 = 0))]_vars

\* C12 witness: the loop runs under reduced motion on a track that has been
\* measured and filled with clones
C12_LoopRunsAtSpeedZero ==
    /\ IsMq /\ mq.frame /\ mq.prefersReduced /\ mq.reducedMotion
    /\ mq.speed2 = 0 /\ mq.x2 = 0 /\ mq.setWidth = 3 /\ mq.numSets > 2

\* C16: for a section that initializeHersLabsHero wraps in a new element, the
\* constructor resolves this.section to that section, and, when the section has
\* a track with sets, the animation loop is eventually started (unless the
\* element leaves the document or the sets have no width)
C16_WrapperStartsLoop ==
    /\ [](IsMq /\ mq.wrapped => mq.section)
    /\ []((IsMq /\ mq.wrapped /\ mq.trackInSection /\ mq.numSets > 0)
            => <>(mq.frame \/ mq.measuredWidth = 0 \/ ~mq.connected))

=============================================================================
